---- MODULE Spec2Model ----
(***************************************************************************)
(* Model of the API-S3 server (Express + cors + AWS SDK v3).               *)
(*                                                                         *)
(* The repository holds two builds of the same server: src/app.js and      *)
(* src/unnamed/part_000.  They differ in the CORS configuration of the     *)
(* OPTIONS route and in the field names of the upload-url response; the    *)
(* variable `build` says which one is running.                             *)
(*                                                                         *)
(* JavaScript strings that the code takes apart (CORS_ORIGIN, the Origin   *)
(* header, ext, object keys) are sequences of one-character strings.       *)
(* Strings the code only compares (content types, messages) are TLA+       *)
(* strings.  An optional value (a header, a JSON field, a query parameter, *)
(* an environment variable) is None when absent and Some(v) when present.  *)
(*                                                                         *)
(* Requests are well-formed: a body that express.json() rejects never      *)
(* reaches the CORS middleware or a route.  The storage service and the    *)
(* signer are seen through the calls the handlers make: a call is          *)
(* serviced, or it fails without effect.  Object metadata is the content   *)
(* type and the length; LastModified is left out.                          *)
(***************************************************************************)
EXTENDS Integers, Sequences, FiniteSets, TLC

VARIABLES
    build,           \* "app.js" or "part_000": the source file that runs
    corsEnv,         \* process.env.CORS_ORIGIN (optional string)
    allowedOrigins,  \* the allowlist parsed from corsEnv at start-up
    decision,        \* last verdict of the origin callback (None before any)
    clock,           \* index into Dates: the current UTC date
    store,           \* the bucket: object key -> [ct, len]
    hist,            \* per key, what the clients last saw happen to it
    reqs,            \* connection slot -> request record (or Idle)
    alive            \* the Node process is running

vars == <<build, corsEnv, allowedOrigins, decision, clock, store, hist, reqs, alive>>

(***************************************************************************)
(* Bounds of the model.                                                    *)
(***************************************************************************)
MaxEnvLen == 3       \* longest CORS_ORIGIN value tried
MaxOriginLen == 2    \* longest Origin header tried
MaxSlots == 2        \* requests in flight at once
MaxBytes == 2        \* largest upload, in bytes

(***************************************************************************)
(* Optional values and JavaScript truthiness.                              *)
(***************************************************************************)
None == <<>>
Some(v) == <<v>>

\* !x for an optional character string: undefined and "" are falsy
FalsyStr(x) == x = None \/ x[1] = <<>>

\* !x for an optional atomic string
FalsyText(x) == x = None \/ x[1] = ""

(***************************************************************************)
(* String helpers: String.prototype.split / trim, Array.prototype.filter,  *)
(* Array.prototype.includes.                                               *)
(***************************************************************************)
Comma == ","
Star == <<"*">>
WhiteSpace == {" "}

RECURSIVE Split(_, _)
Split(s, sep) ==
    IF \A i \in 1..Len(s) : s[i] # sep
    THEN <<s>>
    ELSE LET i == CHOOSE k \in 1..Len(s) :
                      s[k] = sep /\ \A j \in 1..(k - 1) : s[j] # sep
         IN  <<SubSeq(s, 1, i - 1)>> \o Split(SubSeq(s, i + 1, Len(s)), sep)

RECURSIVE TrimStart(_)
TrimStart(s) ==
    IF s # <<>> /\ Head(s) \in WhiteSpace THEN TrimStart(Tail(s)) ELSE s

RECURSIVE TrimEnd(_)
TrimEnd(s) ==
    IF s # <<>> /\ s[Len(s)] \in WhiteSpace
    THEN TrimEnd(SubSeq(s, 1, Len(s) - 1))
    ELSE s

Trim(s) == TrimEnd(TrimStart(s))

MapTrim(list) == [i \in 1..Len(list) |-> Trim(list[i])]

\* .filter(Boolean) on a list of strings: the empty string is dropped
RECURSIVE FilterBoolean(_)
FilterBoolean(list) ==
    IF list = <<>> THEN <<>>
    ELSE IF Head(list) = <<>> THEN FilterBoolean(Tail(list))
    ELSE <<Head(list)>> \o FilterBoolean(Tail(list))

Includes(list, x) == \E i \in 1..Len(list) : list[i] = x

(***************************************************************************)
(* CORS allowlist and origin callback.                                     *)
(***************************************************************************)
\* process.env.CORS_ORIGIN || "*"
EnvOrDefault(env) == IF FalsyStr(env) THEN Star ELSE env[1]

\* the .map(s => s.trim()) step left out
ParseOrigins_NoTrim(env) == FilterBoolean(Split(EnvOrDefault(env), Comma))

ParseOrigins(env) == FilterBoolean(MapTrim(Split(EnvOrDefault(env), Comma)))

\* origin: (origin, callback) => ...   the value handed to callback(null, _)
OriginCallback(allowed, origin) ==
    IF FalsyStr(origin) \/ Includes(allowed, Star)
    THEN TRUE
    ELSE Includes(allowed, origin[1])

(***************************************************************************)
(* The `cors` package as the two builds configure it.  Its middleware      *)
(* calls the origin callback with the Origin header; on a falsy verdict it *)
(* sets no header and calls next(); on a true verdict it reflects the      *)
(* request origin in Access-Control-Allow-Origin (when there is one), and  *)
(* on an OPTIONS request ends the response with 204, otherwise next().     *)
(* cors() without options has origin "*": every request gets               *)
(* Access-Control-Allow-Origin: * and an OPTIONS request ends with 204.    *)
(* A middleware result is [allow, acao, ended].                            *)
(***************************************************************************)
CorsWithCallback(allowed, method, origin) ==
    LET ok == OriginCallback(allowed, origin)
    IN  [allow |-> ok,
         acao  |-> IF ok /\ ~FalsyStr(origin) THEN origin ELSE None,
         ended |-> ok /\ method = "OPTIONS"]

CorsDefault(method) ==
    [allow |-> TRUE, acao |-> Some(Star), ended |-> method = "OPTIONS"]

\* app.use(cors({origin: ...}))
CorsUse(allowed, method, origin) == CorsWithCallback(allowed, method, origin)

\* app.options(/.*/, ...): cors() in app.js, cors(corsOpts) in part_000
CorsOptionsRoute(b, allowed, method, origin) ==
    IF b = "app.js"
    THEN CorsDefault(method)
    ELSE CorsWithCallback(allowed, method, origin)

\* The middleware chain in registration order, up to the route handlers.
\* [allow: the origin callback's verdict, acao: the header the response
\*  carries, ended: a middleware answered, so that no route handler runs]
Middleware(b, allowed, method, origin) ==
    LET first == CorsUse(allowed, method, origin)
    IN  IF first.ended \/ method # "OPTIONS"
        THEN first
        ELSE LET second == CorsOptionsRoute(b, allowed, method, origin)
             IN  [allow |-> first.allow,
                  acao  |-> second.acao,
                  ended |-> second.ended]

(***************************************************************************)
(* Key derivation of POST /api/upload-url.                                 *)
(***************************************************************************)
RandomByteCount == 16
ExpiresIn == 300

KeyPrefix == <<"u", "p", "l", "o", "a", "d", "s", "/">>

Digits == <<"0", "1", "2", "3", "4", "5", "6", "7", "8", "9">>
HexDigits == Digits \o <<"a", "b", "c", "d", "e", "f">>

Pad2(n) == <<Digits[(n \div 10) + 1], Digits[(n % 10) + 1]>>
Pad4(n) == Pad2(n \div 100) \o Pad2(n % 100)

\* new Date().toISOString().slice(0, 10), from the date's UTC fields
ISODate(d) == Pad4(d.year) \o <<"-">> \o Pad2(d.month) \o <<"-">> \o Pad2(d.day)

\* Buffer.toString("hex")
RECURSIVE ToHex(_)
ToHex(bytes) ==
    IF bytes = <<>> THEN <<>>
    ELSE <<HexDigits[(Head(bytes) \div 16) + 1], HexDigits[(Head(bytes) % 16) + 1]>>
         \o ToHex(Tail(bytes))

\* String.prototype.replace(".", ""): the first "." of the string is removed
RECURSIVE ReplaceFirstDot(_)
ReplaceFirstDot(s) ==
    IF s = <<>> THEN <<>>
    ELSE IF Head(s) = "." THEN Tail(s)
    ELSE <<Head(s)>> \o ReplaceFirstDot(Tail(s))

\* ext ? "." + String(ext).replace(".", "") : ""
ExtSuffix(ext) ==
    IF FalsyStr(ext) THEN <<>> ELSE <<".">> \o ReplaceFirstDot(ext[1])

DeriveKey(date, bytes, ext) ==
    KeyPrefix \o ISODate(date) \o <<"/">> \o ToHex(bytes) \o ExtSuffix(ext)

(***************************************************************************)
(* Request validation.                                                     *)
(***************************************************************************)
\* a sixth type let through
AllowedMime_Extra ==
    {"image/png", "image/jpeg", "image/webp", "image/gif", "image/svg+xml",
     "image/bmp"}

AllowedMime ==
    {"image/png", "image/jpeg", "image/webp", "image/gif", "image/svg+xml"}

\* String(req.query.key || "")
QueryKey(q) == IF FalsyStr(q) THEN <<>> ELSE q[1]

\* the guard tests the raw parameter's presence only
MissingKey_PresenceOnly(q) == q = None

\* if (!key) return res.status(400)...
MissingKey(q) == QueryKey(q) = <<>>

(***************************************************************************)
(* The storage service as the handlers see it.  A call either is serviced  *)
(* (and then answers from the bucket's state) or fails before it has any   *)
(* effect; http = 0 stands for an error that carries no $metadata.         *)
(***************************************************************************)
FailureStatuses == {0, 503}

Failures == {[ok |-> FALSE, http |-> h] : h \in FailureStatuses}

Put(f, k, v) == [x \in (DOMAIN f) \cup {k} |-> IF x = k THEN v ELSE f[x]]
Remove(f, k) == [x \in (DOMAIN f) \ {k} |-> f[x]]

\* s3.send(new HeadObjectCommand(...)) and s3.send(new GetObjectCommand(...))
S3ReadOutcomes(st, k) ==
    (IF k \in DOMAIN st
     THEN {[ok |-> TRUE, http |-> 200, obj |-> st[k]]}
     ELSE {[ok |-> FALSE, http |-> 404]})
    \cup Failures

\* s3.send(new DeleteObjectCommand(...)): 204 whether or not the key exists
S3DeleteOutcomes == {[ok |-> TRUE, http |-> 204]} \cup Failures

\* getSignedUrl(s3, cmd, {expiresIn: 60 * 5})
SignOutcomes == {[ok |-> TRUE, http |-> 200]} \cup {[ok |-> FALSE, http |-> 0]}

SignedUrl(verb, k, ct) ==
    [verb |-> verb, key |-> k, ct |-> ct, expiresIn |-> ExpiresIn]

(***************************************************************************)
(* What each handler answers once its storage call has settled.            *)
(***************************************************************************)
Reply(status, body) == [status |-> status, body |-> body]

\* ContentType left out of the PutObjectCommand
UploadUrlResult_NoType(b, out, k, ct) ==
    IF out.ok
    THEN Reply(200, [signedUrl |-> SignedUrl("PUT", k, ""),
                     key |-> k,
                     objectUrl |-> IF b = "app.js" THEN Some(k) ELSE None])
    ELSE Reply(500, [error |-> "erro ao gerar URL de upload"])

UploadUrlResult(b, out, k, ct) ==
    IF out.ok
    THEN Reply(200, [signedUrl |-> SignedUrl("PUT", k, ct),
                     key |-> k,
                     objectUrl |-> IF b = "app.js" THEN Some(k) ELSE None])
    ELSE Reply(500, [error |-> "erro ao gerar URL de upload"])

DownloadUrlResult(out, k) ==
    IF out.ok
    THEN Reply(200, [signedUrl |-> SignedUrl("GET", k, None)])
    ELSE Reply(500, [error |-> "erro ao gerar URL de download"])

\* the catch block tests for 403 instead of 404
HeadResult_Wrong404(out) ==
    IF out.ok
    THEN Reply(200, [exists |-> TRUE,
                     contentType |-> out.obj.ct,
                     contentLength |-> out.obj.len])
    ELSE IF out.http = 403
    THEN Reply(404, [exists |-> FALSE])
    ELSE Reply(500, [error |-> "erro no head"])

HeadResult(out) ==
    IF out.ok
    THEN Reply(200, [exists |-> TRUE,
                     contentType |-> out.obj.ct,
                     contentLength |-> out.obj.len])
    ELSE IF out.http = 404
    THEN Reply(404, [exists |-> FALSE])
    ELSE Reply(500, [error |-> "erro no head"])

\* the handler answers 204 without a body
DeleteResult_NoBody(out, k) ==
    IF out.ok
    THEN Reply(204, [ok |-> TRUE])
    ELSE Reply(500, [error |-> "erro ao deletar"])

DeleteResult(out, k) ==
    IF out.ok
    THEN Reply(200, [ok |-> TRUE, key |-> k])
    ELSE Reply(500, [error |-> "erro ao deletar"])

\* out.ContentType || "application/octet-stream"
StreamContentType(obj) ==
    IF obj.ct = "" THEN "application/octet-stream" ELSE obj.ct

GetObjectResult(out) ==
    IF out.ok
    THEN Reply(200, [contentType |-> StreamContentType(out.obj)])
    ELSE Reply(404, [error |-> "nao encontrado"])

(***************************************************************************)
(* Requests.  A slot holds one connection: the request's inputs, how far   *)
(* its handler got, and the response once it is sent.                      *)
(*   pc:      "await" (storage call in flight), "stream" (body being       *)
(*            piped), "done" (response sent), "aborted" (process died)     *)
(*   allow:   the origin callback's verdict on the request's origin        *)
(*   acao:    the Access-Control-Allow-Origin header of the response       *)
(*   ran:     a route handler ran                                          *)
(*   derived: random bytes were drawn and a key derived                    *)
(*   calls:   storage/signing calls issued for the request                 *)
(*   s3:      how the storage call settled                                 *)
(*   seen:    what the clients had last seen happen to the key when the    *)
(*            storage call was serviced                                    *)
(*   held:    the bucket held the key when the storage call was serviced   *)
(*   at:      the date on which the request arrived                        *)
(***************************************************************************)
Slots == 1..MaxSlots

\* the UTC dates the clock passes through
Dates ==
    << [year |-> 2025, month |-> 9, day |-> 16],
       [year |-> 2025, month |-> 12, day |-> 31],
       [year |-> 2026, month |-> 1, day |-> 1] >>
Idle == [pc |-> "idle"]
NoOutcome == [ok |-> FALSE, http |-> -1]
Never == [ev |-> "never"]

FreeSlots == {s \in Slots : reqs[s].pc = "idle"}
NextSlot == CHOOSE s \in FreeSlots : \A t \in FreeSlots : s <= t

HistOf(k) == IF k \in DOMAIN hist THEN hist[k] ELSE Never

\* the snapshots taken when the storage service serviced a call
WasServiced(out) == out.http \in {200, 204, 404}
SeenBy(out, k) == IF WasServiced(out) THEN HistOf(k) ELSE Never
HeldFor(out, k) == WasServiced(out) /\ k \in DOMAIN store

\* a request after the middleware chain, before any route handler
Arrived(route, method, origin) ==
    LET mw == Middleware(build, allowedOrigins, method, origin)
    IN  [route |-> route, method |-> method, origin |-> origin,
         allow |-> mw.allow, acao |-> mw.acao, ended |-> mw.ended,
         ct |-> None, ext |-> None, q |-> None,
         pc |-> "done", status |-> 0, body |-> [none |-> TRUE],
         ran |-> FALSE, derived |-> FALSE, calls |-> 0,
         key |-> <<>>, s3 |-> NoOutcome, seen |-> Never, held |-> FALSE,
         at |-> Dates[clock], bodyFailed |-> FALSE]

Answer(r, reply) ==
    [r EXCEPT !.pc = "done", !.status = reply.status, !.body = reply.body]

Serve(r) ==
    /\ alive
    /\ FreeSlots # {}
    /\ reqs' = [reqs EXCEPT ![NextSlot] = r]

Awaiting(s, route) ==
    /\ alive
    /\ reqs[s].pc = "await"
    /\ reqs[s].route = route

(***************************************************************************)
(* Route handlers: the synchronous part, up to the first await.            *)
(***************************************************************************)
\* app.get("/health", ...)
Health(origin) ==
    /\ Serve(Answer([Arrived("health", "GET", origin) EXCEPT !.ran = TRUE],
                    Reply(200, [text |-> "ok"])))
    /\ UNCHANGED <<build, corsEnv, allowedOrigins, decision, clock, store, hist, alive>>

\* an OPTIONS request: answered by cors, or else by Express's own OPTIONS
\* reply, which lists the path's methods and sets no CORS header
Preflight(origin) ==
    /\ LET r == Arrived("options", "OPTIONS", origin)
       IN  Serve(Answer(r, IF r.ended
                           THEN Reply(204, [none |-> TRUE])
                           ELSE Reply(200, [allowHeader |-> TRUE])))
    /\ UNCHANGED <<build, corsEnv, allowedOrigins, decision, clock, store, hist, alive>>

\* app.post("/api/upload-url", ...)
UploadUrlStart(r, bytes) ==
    IF FalsyText(r.ct)
    THEN Answer(r, Reply(400, [error |-> "contentType obrigatorio"]))
    ELSE IF r.ct[1] \notin AllowedMime
    THEN Answer(r, Reply(415, [error |-> "MIME nao permitido"]))
    ELSE [r EXCEPT !.pc = "await", !.derived = TRUE, !.calls = 1,
                   !.key = DeriveKey(Dates[clock], bytes, r.ext)]

UploadUrl(origin, ct, ext, bytes) ==
    /\ Serve(UploadUrlStart([Arrived("upload-url", "POST", origin)
                               EXCEPT !.ran = TRUE, !.ct = ct, !.ext = ext],
                            bytes))
    /\ UNCHANGED <<build, corsEnv, allowedOrigins, decision, clock, store, hist, alive>>

\* the four handlers that take ?key=
KeyRouteStart(r) ==
    IF MissingKey(r.q)
    THEN Answer(r, Reply(400, [error |-> "key obrigatorio"]))
    ELSE [r EXCEPT !.pc = "await", !.calls = 1, !.key = QueryKey(r.q)]

KeyRoute(route, method, origin, q) ==
    /\ Serve(KeyRouteStart([Arrived(route, method, origin)
                              EXCEPT !.ran = TRUE, !.q = q]))
    /\ UNCHANGED <<build, corsEnv, allowedOrigins, decision, clock, store, hist, alive>>

DownloadUrl(origin, q) == KeyRoute("download-url", "GET", origin, q)
HeadObject(origin, q) == KeyRoute("head", "GET", origin, q)
DeleteObject(origin, q) == KeyRoute("delete", "DELETE", origin, q)
StreamObject(origin, q) == KeyRoute("object", "GET", origin, q)

(***************************************************************************)
(* Continuations: the storage call settles and the handler answers.        *)
(***************************************************************************)
Settle(s, out, reply) ==
    reqs' = [reqs EXCEPT ![s] = [Answer(reqs[s], reply) EXCEPT
                                    !.s3 = out, !.seen = SeenBy(out, reqs[s].key),
                                    !.held = HeldFor(out, reqs[s].key)]]

UploadUrlSigned(s) ==
    /\ Awaiting(s, "upload-url")
    /\ \E out \in SignOutcomes :
          Settle(s, out, UploadUrlResult(build, out, reqs[s].key, reqs[s].ct[1]))
    /\ UNCHANGED <<build, corsEnv, allowedOrigins, decision, clock, store, hist, alive>>

DownloadUrlSigned(s) ==
    /\ Awaiting(s, "download-url")
    /\ \E out \in SignOutcomes :
          Settle(s, out, DownloadUrlResult(out, reqs[s].key))
    /\ UNCHANGED <<build, corsEnv, allowedOrigins, decision, clock, store, hist, alive>>

HeadReply(s) ==
    /\ Awaiting(s, "head")
    /\ \E out \in S3ReadOutcomes(store, reqs[s].key) :
          Settle(s, out, HeadResult(out))
    /\ UNCHANGED <<build, corsEnv, allowedOrigins, decision, clock, store, hist, alive>>

DeleteReply(s) ==
    /\ Awaiting(s, "delete")
    /\ \E out \in S3DeleteOutcomes :
          /\ Settle(s, out, DeleteResult(out, reqs[s].key))
          /\ store' = IF out.ok THEN Remove(store, reqs[s].key) ELSE store
          /\ hist' = IF out.ok
                     THEN Put(hist, reqs[s].key, [ev |-> "deleted"])
                     ELSE hist
    /\ UNCHANGED <<build, corsEnv, allowedOrigins, decision, clock, alive>>

\* res.setHeader(...); out.Body.pipe(res): the body starts to flow
GetReply(s) ==
    /\ Awaiting(s, "object")
    /\ \E out \in S3ReadOutcomes(store, reqs[s].key) :
          reqs' = [reqs EXCEPT ![s] =
                     [Answer(reqs[s], GetObjectResult(out)) EXCEPT
                        !.s3 = out, !.seen = SeenBy(out, reqs[s].key),
                        !.held = HeldFor(out, reqs[s].key),
                        !.pc = IF out.ok THEN "stream" ELSE "done"]]
    /\ UNCHANGED <<build, corsEnv, allowedOrigins, decision, clock, store, hist, alive>>

\* the body stream ends: pipe() ends the response
StreamEnd(s) ==
    /\ alive
    /\ reqs[s].pc = "stream"
    /\ reqs' = [reqs EXCEPT ![s].pc = "done"]
    /\ UNCHANGED <<build, corsEnv, allowedOrigins, decision, clock, store, hist, alive>>

\* the body stream emits "error": pipe() forwards no errors and nothing
\* listens for one on out.Body, so the event is thrown as an uncaught
\* exception and the process exits, dropping every open connection
StreamError(s) ==
    /\ alive
    /\ reqs[s].pc = "stream"
    /\ alive' = FALSE
    /\ reqs' = [t \in Slots |->
                  IF reqs[t].pc \in {"await", "stream"}
                  THEN [reqs[t] EXCEPT !.pc = "aborted", !.bodyFailed = (t = s)]
                  ELSE reqs[t]]
    /\ UNCHANGED <<build, corsEnv, allowedOrigins, decision, clock, store, hist>>

(***************************************************************************)
(* The clients.                                                            *)
(***************************************************************************)
\* a client PUTs n bytes to the bucket with the signed URL it was given
ClientPut(s, n) ==
    /\ reqs[s].pc = "done"
    /\ reqs[s].route = "upload-url"
    /\ reqs[s].status = 200
    /\ LET url == reqs[s].body.signedUrl
           obj == [ct |-> url.ct, len |-> n]
       IN  /\ store' = Put(store, url.key, obj)
           /\ hist' = Put(hist, url.key,
                          [ev |-> "put", ct |-> reqs[s].ct[1], len |-> n])
    /\ UNCHANGED <<build, corsEnv, allowedOrigins, decision, clock, reqs, alive>>

\* the client has its response (or lost its connection): the slot is free
Close(s) ==
    /\ reqs[s].pc \in {"done", "aborted"}
    /\ reqs' = [reqs EXCEPT ![s] = Idle]
    /\ UNCHANGED <<build, corsEnv, allowedOrigins, decision, clock, store, hist, alive>>

\* midnight UTC passes
Tick ==
    /\ clock < Len(Dates)
    /\ clock' = clock + 1
    /\ UNCHANGED <<build, corsEnv, allowedOrigins, decision, store, hist, reqs, alive>>

\* the origin callback on its own
EvaluateOrigin(origin) ==
    /\ decision' = Some([origin |-> origin,
                         allow |-> OriginCallback(allowedOrigins, origin)])
    /\ UNCHANGED <<build, corsEnv, allowedOrigins, clock, store, hist, reqs, alive>>

(***************************************************************************)
(* Inputs.                                                                 *)
(***************************************************************************)
RECURSIVE StringsUpTo(_, _)
StringsUpTo(chars, n) ==
    IF n = 0 THEN {<<>>}
    ELSE LET shorter == StringsUpTo(chars, n - 1)
         IN  shorter \cup {Append(t, c) : t \in shorter, c \in chars}

Optional(S) == {None} \cup {Some(v) : v \in S}

EnvChars == {"a", "A", "*", ",", " "}
OriginChars == {"a", "A", "*", " "}
EnvValues == Optional(StringsUpTo(EnvChars, MaxEnvLen))
OriginValues == Optional(StringsUpTo(OriginChars, MaxOriginLen))

Good == <<"g">>
Evil == <<"e">>
SiteOrigins == {None, Some(Good), Some(Evil)}

Png == <<"p", "n", "g">>
ContentTypes ==
    {None, Some("")}
    \cup {Some(t) : t \in {"image/png", "image/jpeg", "image/webp", "image/gif",
                          "image/svg+xml", "image/bmp", "IMAGE/PNG", "image/*",
                          "text/html"}}
ExtValues ==
    {None, Some(<<>>), Some(Png), Some(<<".">> \o Png), Some(<<".", ".", "x">>),
     Some(<<"t", "a", "r", ".", "g", "z">>), Some(<<"a", ".">>)}

SampleBytes == {0, 171, 255}
RandomSamples ==
    {[i \in 1..RandomByteCount |-> b] : b \in SampleBytes}
    \cup {[i \in 1..RandomByteCount |-> (i * 37) % 256]}
Zeros == [i \in 1..RandomByteCount |-> 0]

\* the ?key= values a client sends: none, the empty one, and the key of
\* an upload (whether or not that upload has happened yet)
PngKey == DeriveKey(Dates[1], Zeros, Some(Png))
BareKey == DeriveKey(Dates[1], Zeros, None)
QueryValues == {None, Some(<<>>), Some(PngKey)}

(***************************************************************************)
(* Specifications.                                                         *)
(***************************************************************************)
Started(b, env) ==
    /\ build = b
    /\ corsEnv = env
    /\ allowedOrigins = ParseOrigins(env)
    /\ decision = None
    /\ clock = 1
    /\ store = <<>>
    /\ hist = <<>>
    /\ reqs = [s \in Slots |-> Idle]
    /\ alive = TRUE

Settles(s) ==
    \/ UploadUrlSigned(s)
    \/ DownloadUrlSigned(s)
    \/ HeadReply(s)
    \/ DeleteReply(s)
    \/ GetReply(s)
    \/ StreamEnd(s)
    \/ StreamError(s)
    \/ Close(s)

\* the storage facade, called without an Origin header
Init == \E b \in {"app.js", "part_000"} : Started(b, None)

Next ==
    \/ \E ct \in {None, Some("image/png"), Some("image/bmp")} :
          UploadUrl(None, ct, Some(Png), Zeros)
    \/ \E q \in QueryValues :
          \/ DownloadUrl(None, q)
          \/ HeadObject(None, q)
          \/ DeleteObject(None, q)
          \/ StreamObject(None, q)
    \/ \E s \in Slots : Settles(s)
    \/ \E s \in Slots, n \in 1..MaxBytes : ClientPut(s, n)

Spec == Init /\ [][Next]_vars

\* browsers and other clients against a server with CORS_ORIGIN set to one site
InitCors == \E b \in {"app.js", "part_000"} : Started(b, Some(Good))

NextCors ==
    \/ \E o \in SiteOrigins :
          \/ Health(o)
          \/ Preflight(o)
          \/ UploadUrl(o, Some("image/png"), None, Zeros)
          \/ \E q \in {Some(BareKey)} :
                \/ DownloadUrl(o, q)
                \/ HeadObject(o, q)
                \/ DeleteObject(o, q)
                \/ StreamObject(o, q)
    \/ \E s \in Slots : Settles(s)
    \/ \E s \in Slots : ClientPut(s, 1)

SpecCors == InitCors /\ [][NextCors]_vars

\* POST /api/upload-url over many content types
NextUpload ==
    \/ \E ct \in ContentTypes, ext \in {None, Some(Png)} :
          UploadUrl(None, ct, ext, Zeros)
    \/ \E s \in Slots : UploadUrlSigned(s) \/ Close(s)

SpecUpload == Init /\ [][NextUpload]_vars

\* the key deriver over many extension hints, random draws and dates
NextKey ==
    \/ \E ext \in ExtValues, bytes \in RandomSamples :
          UploadUrl(None, Some("image/png"), ext, bytes)
    \/ \E s \in Slots : UploadUrlSigned(s) \/ Close(s)
    \/ Tick

SpecKey == Init /\ [][NextKey]_vars

\* the origin callback over many allowlists and origins
InitOrigin == \E env \in EnvValues : Started("app.js", env)

NextOrigin == \E o \in OriginValues : EvaluateOrigin(o)

SpecOrigin == InitOrigin /\ [][NextOrigin]_vars

(***************************************************************************)
(* Properties.                                                             *)
(***************************************************************************)
Live(s) == reqs[s].pc # "idle"
Sent(s) == Live(s) /\ reqs[s].pc = "done"
KeyRoutes == {"download-url", "head", "delete", "object"}
ApiRoutes == KeyRoutes \cup {"upload-url"}
Serviced(s) == reqs[s].s3.http \in {200, 204, 404}

\* The allowlist as the specification words it: the value of CORS_ORIGIN
\* ("*" when unset or empty) cut at its commas, each piece without the
\* blanks around it, empty pieces left out.
C1_Value == IF corsEnv = None \/ corsEnv[1] = <<>> THEN <<"*">> ELSE corsEnv[1]

C1_IsEntry(e) ==
    LET v == C1_Value
    IN  \E a \in 1..Len(v), b \in 1..Len(v) :
           /\ a <= b
           /\ a = 1 \/ v[a - 1] = ","
           /\ b = Len(v) \/ v[b + 1] = ","
           /\ \A k \in a..b : v[k] # ","
           /\ \E i \in a..b, j \in a..b :
                 /\ i <= j
                 /\ v[i] # " " /\ v[j] # " "
                 /\ \A k \in a..(i - 1) : v[k] = " "
                 /\ \A k \in (j + 1)..b : v[k] = " "
                 /\ e = SubSeq(v, i, j)

\* C1 as stated: the origin callback allows an absent origin, allows every
\* origin when the allowlist holds "*", and otherwise allows exactly the
\* origins that are entries of the allowlist.
C1_AsStated ==
    decision # None =>
        LET o == decision[1].origin
        IN  decision[1].allow
              <=> (o = None \/ C1_IsEntry(<<"*">>) \/ (o # None /\ C1_IsEntry(o[1])))

\* C1 amended: the origin callback allows an origin that is absent or the
\* empty string, allows every origin when the allowlist holds "*", and
\* otherwise allows exactly the origins that are entries of the allowlist
\* (compared case-sensitively).
C1_OriginPolicy ==
    decision # None =>
        LET o == decision[1].origin
        IN  decision[1].allow
              <=> (o = None \/ o[1] = <<>> \/ C1_IsEntry(<<"*">>) \/ C1_IsEntry(o[1]))

\* an origin that differs from an allowlist entry only in case is denied
C1_Witness ==
    /\ decision # None
    /\ decision[1].origin = Some(<<"A">>)
    /\ Includes(allowedOrigins, <<"a">>)
    /\ ~decision[1].allow

\* C2: a request to an /api endpoint whose origin the origin callback
\* denies runs no route handler and issues no storage or signing call.
C2_DeniedRequestStops ==
    \A s \in Slots :
        (Live(s) /\ reqs[s].route \in ApiRoutes /\ ~reqs[s].allow)
            => (~reqs[s].ran /\ reqs[s].calls = 0)

\* C3: the answer to an OPTIONS request whose origin the origin callback
\* denies carries no Access-Control-Allow-Origin header.
C3_PreflightFollowsPolicy ==
    \A s \in Slots :
        (Sent(s) /\ reqs[s].route = "options" /\ ~reqs[s].allow)
            => reqs[s].acao = None

C4_Listed ==
    {"image/png", "image/jpeg", "image/webp", "image/gif", "image/svg+xml"}

\* C4 as stated: a request to upload-url whose contentType is supplied and
\* is not one of the five listed types is answered 415, with no key
\* derived and no signing call made.
C4_AsStated ==
    \A s \in Slots :
        (Live(s) /\ reqs[s].route = "upload-url"
            /\ reqs[s].ct # None /\ reqs[s].ct[1] \notin C4_Listed)
            => (reqs[s].pc = "done" /\ reqs[s].status = 415
                  /\ ~reqs[s].derived /\ reqs[s].calls = 0)

\* C4 amended: a request to upload-url whose contentType is a non-empty
\* string other than the five listed types is answered 415, and one whose
\* contentType is missing or empty is answered 400; in both cases no key
\* is derived and no signing call is made.
C4_UnsupportedRejected ==
    \A s \in Slots :
        (Live(s) /\ reqs[s].route = "upload-url")
            => /\ (reqs[s].ct # None /\ reqs[s].ct[1] # ""
                     /\ reqs[s].ct[1] \notin C4_Listed)
                    => (reqs[s].pc = "done" /\ reqs[s].status = 415
                          /\ ~reqs[s].derived /\ reqs[s].calls = 0)
               /\ (reqs[s].ct = None \/ reqs[s].ct = Some(""))
                    => (reqs[s].pc = "done" /\ reqs[s].status = 400
                          /\ ~reqs[s].derived /\ reqs[s].calls = 0)

\* an unlisted type answered 415 while a listed one waits for its signature
C4_Witness ==
    \E s \in Slots, t \in Slots :
        /\ Sent(s) /\ reqs[s].route = "upload-url"
        /\ reqs[s].ct = Some("image/bmp") /\ reqs[s].status = 415
        /\ Live(t) /\ reqs[t].route = "upload-url"
        /\ reqs[t].ct = Some("image/svg+xml") /\ reqs[t].derived

\* C5: on each of the four endpoints that take ?key=, a request whose key
\* is missing or empty is answered 400 and no storage or signing call is
\* made for it at any time.
C5_MissingKeyRejected ==
    \A s \in Slots :
        (Live(s) /\ reqs[s].route \in KeyRoutes
            /\ (reqs[s].q = None \/ reqs[s].q = Some(<<>>)))
            => (reqs[s].pc = "done" /\ reqs[s].status = 400
                  /\ reqs[s].calls = 0 /\ reqs[s].s3 = NoOutcome)

\* an empty key on DELETE and a missing key on GET /api/object, both 400
C5_Witness ==
    \E s \in Slots, t \in Slots :
        /\ Sent(s) /\ reqs[s].route = "delete"
        /\ reqs[s].q = Some(<<>>) /\ reqs[s].status = 400
        /\ Sent(t) /\ reqs[t].route = "object"
        /\ reqs[t].q = None /\ reqs[t].status = 400

\* C6: GET /api/head with a non-empty key answers 404 {exists:false} when
\* the bucket does not hold the key, 200 {exists:true,...} only when it
\* holds it, and 500 only when the storage call failed otherwise than with
\* the not-found status.
C6_HeadNotFound ==
    \A s \in Slots :
        (Sent(s) /\ reqs[s].route = "head"
            /\ reqs[s].q # None /\ reqs[s].q # Some(<<>>))
            => /\ reqs[s].status \in {200, 404, 500}
               /\ (Serviced(s) /\ ~reqs[s].held)
                    => (reqs[s].status = 404 /\ reqs[s].body = [exists |-> FALSE])
               /\ reqs[s].status = 500
                    => (~reqs[s].s3.ok /\ reqs[s].s3.http # 404)
               /\ reqs[s].status = 200
                    => (reqs[s].held /\ reqs[s].body.exists)

\* a key that was never stored answered 404, not 500
C6_Witness ==
    \E s \in Slots :
        /\ Sent(s) /\ reqs[s].route = "head"
        /\ reqs[s].key = PngKey /\ reqs[s].seen = Never /\ ~reqs[s].held
        /\ reqs[s].status = 404

C7_EndsInPng(k) ==
    Len(k) >= 4 /\ SubSeq(k, Len(k) - 3, Len(k)) = <<".", "p", "n", "g">>

\* C7: the key issued for {contentType: "image/png", ext: "png"} ends in
\* ".png"; a head serviced after clients uploaded N bytes to a key with its
\* signed URL answers exists:true with the presigned content type and
\* length N; a serviced delete answers ok:true; and a head serviced after
\* an acknowledged delete, with no upload since, answers 404 exists:false.
C7_EndToEnd ==
    \A s \in Slots :
        /\ (Sent(s) /\ reqs[s].route = "upload-url" /\ reqs[s].status = 200
              /\ reqs[s].ct = Some("image/png") /\ reqs[s].ext = Some(Png))
             => C7_EndsInPng(reqs[s].body.key)
        /\ (Sent(s) /\ reqs[s].route = "head" /\ Serviced(s)
              /\ reqs[s].seen.ev = "put")
             => (reqs[s].status = 200
                   /\ reqs[s].body = [exists |-> TRUE,
                                      contentType |-> reqs[s].seen.ct,
                                      contentLength |-> reqs[s].seen.len])
        /\ (Sent(s) /\ reqs[s].route = "delete" /\ Serviced(s))
             => (reqs[s].status = 200 /\ reqs[s].body.ok)
        /\ (Sent(s) /\ reqs[s].route = "head" /\ Serviced(s)
              /\ reqs[s].seen.ev = "deleted")
             => (reqs[s].status = 404 /\ reqs[s].body = [exists |-> FALSE])

\* the whole sequence happened: the key ending in ".png" was uploaded to,
\* its delete was acknowledged, and the head after that answered 404
C7_Witness ==
    \E s \in Slots, t \in Slots :
        /\ Sent(s) /\ reqs[s].route = "delete" /\ reqs[s].status = 200
        /\ reqs[s].seen.ev = "put" /\ C7_EndsInPng(reqs[s].key)
        /\ Sent(t) /\ reqs[t].route = "head" /\ reqs[t].key = reqs[s].key
        /\ reqs[t].seen.ev = "deleted" /\ reqs[t].status = 404

\* C8: a delete of a non-empty key that the storage service services is
\* answered 200 {ok:true, key} whether or not the bucket held the key, and
\* leaves the key absent from the bucket.
C8_DeleteIdempotent ==
    [][\A s \in Slots :
          (/\ reqs[s].pc = "await" /\ reqs[s].route = "delete"
           /\ reqs'[s].pc = "done" /\ reqs'[s].s3.ok)
              => /\ reqs'[s].status = 200
                 /\ reqs'[s].body = [ok |-> TRUE, key |-> reqs[s].q[1]]
                 /\ reqs[s].q[1] \notin DOMAIN store']_vars

\* the same key deleted twice in a row, both answered 200
C8_Witness ==
    \E s \in Slots, t \in Slots :
        /\ Sent(s) /\ reqs[s].route = "delete" /\ reqs[s].status = 200
        /\ reqs[s].held
        /\ Sent(t) /\ reqs[t].route = "delete" /\ reqs[t].status = 200
        /\ reqs[t].key = reqs[s].key
        /\ ~reqs[t].held /\ reqs[t].seen.ev = "deleted"

C9_Digit(n) == <<"0", "1", "2", "3", "4", "5", "6", "7", "8", "9">>[n + 1]

C9_Date(d) ==
    << C9_Digit(d.year \div 1000), C9_Digit((d.year \div 100) % 10),
       C9_Digit((d.year \div 10) % 10), C9_Digit(d.year % 10), "-",
       C9_Digit(d.month \div 10), C9_Digit(d.month % 10), "-",
       C9_Digit(d.day \div 10), C9_Digit(d.day % 10) >>

C9_LowerHex ==
    {"0", "1", "2", "3", "4", "5", "6", "7", "8", "9", "a", "b", "c", "d", "e", "f"}

\* the extension with only a leading dot stripped
C9_Stripped(e) == IF e # <<>> /\ e[1] = "." THEN Tail(e) ELSE e

\* C9: the key derived for an upload is "uploads/", the UTC date as
\* YYYY-MM-DD, "/", 32 lowercase hex characters and, when ext is supplied,
\* "." followed by ext with only a leading dot stripped and every other
\* character kept; without ext the key ends after the hex characters.
C9_KeyShape ==
    \A s \in Slots :
        (Live(s) /\ reqs[s].route = "upload-url" /\ reqs[s].derived)
            => LET k == reqs[s].key
                   suffix == IF reqs[s].ext = None \/ reqs[s].ext = Some(<<>>)
                             THEN <<>>
                             ELSE <<".">> \o C9_Stripped(reqs[s].ext[1])
               IN  /\ Len(k) = 51 + Len(suffix)
                   /\ SubSeq(k, 1, 8) = <<"u", "p", "l", "o", "a", "d", "s", "/">>
                   /\ SubSeq(k, 9, 18) = C9_Date(reqs[s].at)
                   /\ k[19] = "/"
                   /\ \A i \in 20..51 : k[i] \in C9_LowerHex
                   /\ SubSeq(k, 52, Len(k)) = suffix

\* C10: a storage failure in one request touches that request alone: no
\* other request loses its response, and the server goes on serving.
C10_Isolation ==
    /\ alive
    /\ \A s \in Slots :
          (Live(s) /\ reqs[s].pc = "aborted") => reqs[s].bodyFailed

====
